---- MODULE Spec2Model ----
(***************************************************************************)
(* Flappy-bird game of src/src/main.ts (final version, lines 389-872):     *)
(* the state$ scan reducer, the animatePipes obstacle manager, the         *)
(* GhostManager and the part of render that the obstacle tick reads back.  *)
(*                                                                         *)
(* Horizontal positions are multiples of 2.5 px in the program; the model  *)
(* keeps them as integers in half-pixel units (HalfPx).  Vertical          *)
(* positions and velocities are integers in the program (200, -12, +2).    *)
(***************************************************************************)
EXTENDS Integers, Naturals, Sequences, FiniteSets, TLC

\* ---------------------------------------------------------------- constants
CANVAS_WIDTH == 600
CANVAS_HEIGHT == 400
BIRB_WIDTH == 42
BIRB_HEIGHT == 30
PIPE_WIDTH == 50
GAP_HEIGHT == 100
\* PIPE_SPEED = 2.5 px, written in half-pixel units
PIPE_SPEED == 5
\* SPAWN_THRESHOLD = 0.7 * CANVAS_WIDTH (= 420 exactly in IEEE doubles)
SPAWN_THRESHOLD == (7 * CANVAS_WIDTH) \div 10
\* createPipe: minGapY, maxGapY
minGapY == 20
\* variant: no margin below the gap
maxGapY_noMargin == CANVAS_HEIGHT - GAP_HEIGHT

maxGapY == CANVAS_HEIGHT - GAP_HEIGHT - 20
\* Viewport.CANVAS_WIDTH * 0.3 (= 180 exactly in IEEE doubles)
birdLeft == (3 * CANVAS_WIDTH) \div 10
birdRight == birdLeft + BIRB_WIDTH
\* event payloads of movement$
FLAP_VY == -12
GRAVITY_VY == 2
START_Y == 200

HalfPx(n) == 2 * n

\* ------------------------------------------------------------------- bounds
\* number of events (handler runs) explored after the start state
MaxEvents == 4
\* number of pipes whose gap is drawn for the start state
MaxStartPipes == 4

\* number of events explored in a run from the program's initial state
MaxRunEvents == 26
\* number of events explored after a start state with a playing ghost
MaxGhostEvents == 4

\* number of events explored after a start state with a positive score
MaxScoredEvents == 3

\* number of events explored in a run at the timers' cadence: 23 gravity events
\* end the game and at most 2 obstacle ticks precede each of them
MaxFairEvents == 70

\* number of events explored in a piloted flight: 260 obstacle ticks take the
\* first pipe off the screen, with 130 gravity events and 12 flaps
MaxFlightEvents == 405

\* gap positions drawn by Math.random(): minGapY + r * (maxGapY - minGapY),
\* 0 <= r < 1; the model draws from three of them
Gaps == {minGapY, 150, maxGapY - 1}

VARIABLES state, activePipes, currentRun, ghosts, livesText, lastEvent, budget

vars == <<state, activePipes, currentRun, ghosts, livesText, lastEvent, budget>>

\* ------------------------------------------------------------------- state
\* variant: the game starts with four lives
initialState_fourLives ==
    [gameEnd |-> FALSE, birdY |-> START_Y, vy |-> 0, lives |-> 4, score |-> 0]

\* variant: the game starts with two lives
initialState_twoLives ==
    [gameEnd |-> FALSE, birdY |-> START_Y, vy |-> 0, lives |-> 2, score |-> 0]

initialState ==
    [gameEnd |-> FALSE, birdY |-> START_Y, vy |-> 0, lives |-> 3, score |-> 0]

initialBirdState == [initialState EXCEPT !.birdY = START_Y, !.vy = 0]

flapEvent == [type |-> "flap", vy |-> FLAP_VY]
\* variant: gravity pulls upwards
gravityEvent_up == [type |-> "gravity", vy |-> 0 - GRAVITY_VY]

\* variant: gravity adds nothing
gravityEvent_weightless == [type |-> "gravity", vy |-> 0]

gravityEvent == [type |-> "gravity", vy |-> GRAVITY_VY]
restartEvent == [type |-> "restart", vy |-> 0]

\* ------------------------------------------------------------ render / HUD
Digits == <<"0", "1", "2", "3", "4", "5", "6", "7", "8", "9">>

\* `Lives: ${s.lives}` as the prefix followed by the decimal characters
livesTextOf(n) ==
    IF n < 0 THEN <<"Lives: ", "-", Digits[(-n) + 1]>>
    ELSE <<"Lives: ", Digits[n + 1]>>

DigitValue(c) == CHOOSE d \in 0..9 : Digits[d + 1] = c

\* variant: the prefix is not removed before parseInt (NaN for every HUD text)
parseLives_keepsPrefix(text) ==
    IF Len(text) = 0 \/ ~(\E d \in 0..9 : Digits[d + 1] = text[1]) THEN 99
    ELSE DigitValue(text[1])

\* parseInt(text.replace("Lives: ", "")): NaN is written as 99 (NaN <= 0 is
\* false, as is 99 <= 0)
parseLives(text) ==
    LET body == IF Len(text) > 0 /\ text[1] = "Lives: " THEN Tail(text) ELSE text
        neg == Len(body) > 0 /\ body[1] = "-"
        digs == IF neg THEN Tail(body) ELSE body
    IN IF Len(digs) = 0 \/ ~(\E d \in 0..9 : Digits[d + 1] = digs[1]) THEN 99
       ELSE IF neg THEN 0 - DigitValue(digs[1]) ELSE DigitValue(digs[1])

\* ---------------------------------------------------------- obstacle manager
\* variant: the new pipe is put in front of the list
createPipe_front(pipes, gapY) ==
    <<[x |-> HalfPx(CANVAS_WIDTH), gapY |-> gapY,
       pipeGapHeight |-> GAP_HEIGHT, passed |-> FALSE]>> \o pipes

createPipe(pipes, gapY) ==
    Append(pipes, [x |-> HalfPx(CANVAS_WIDTH), gapY |-> gapY,
                   pipeGapHeight |-> GAP_HEIGHT, passed |-> FALSE])

\* variant: touching edges count as horizontal overlap
isColliding_inclusive(birdY, pipe) ==
    LET birdTop == birdY
        birdBottom == birdY + BIRB_HEIGHT
        withinPipeX ==
            IF HalfPx(birdRight) >= pipe.x
            THEN (IF HalfPx(birdLeft) <= pipe.x + HalfPx(PIPE_WIDTH) THEN TRUE ELSE FALSE)
            ELSE FALSE
    IN IF ~withinPipeX THEN "null"
       ELSE IF birdTop < pipe.gapY THEN "top"
       ELSE IF birdBottom > pipe.gapY + pipe.pipeGapHeight THEN "bottom"
       ELSE "null"

isColliding(birdY, pipe) ==
    LET birdTop == birdY
        birdBottom == birdY + BIRB_HEIGHT
        withinPipeX ==
            IF HalfPx(birdRight) > pipe.x
            THEN (IF HalfPx(birdLeft) < pipe.x + HalfPx(PIPE_WIDTH) THEN TRUE ELSE FALSE)
            ELSE FALSE
    IN IF ~withinPipeX THEN "null"
       ELSE IF birdTop < pipe.gapY THEN "top"
       ELSE IF birdBottom > pipe.gapY + pipe.pipeGapHeight THEN "bottom"
       ELSE "null"

\* variant: the old pipes are not removed before the spawn
resetPipes_noClear(pipes, gapY) == createPipe(pipes, gapY)

resetPipes(pipes, gapY) ==
    IF Len(pipes) > 0 THEN createPipe(<<>>, gapY) ELSE createPipe(pipes, gapY)

\* variant: a pipe whose right edge is exactly at 0 is kept
movePipes_keepsEdge(pipes) ==
    LET moved == [i \in 1..Len(pipes) |-> [pipes[i] EXCEPT !.x = @ - PIPE_SPEED]]
    IN SelectSeq(moved, LAMBDA p : p.x + HalfPx(PIPE_WIDTH) >= 0)

\* variant: a pipe is removed 5 px later
movePipes_lingers(pipes) ==
    LET moved == [i \in 1..Len(pipes) |-> [pipes[i] EXCEPT !.x = @ - PIPE_SPEED]]
    IN SelectSeq(moved, LAMBDA p : p.x + HalfPx(PIPE_WIDTH) > 0 - HalfPx(10))

\* the for loop of the advance tick: move every pipe, drop the off-screen ones
movePipes(pipes) ==
    LET moved == [i \in 1..Len(pipes) |-> [pipes[i] EXCEPT !.x = @ - PIPE_SPEED]]
    IN SelectSeq(moved, LAMBDA p : p.x + HalfPx(PIPE_WIDTH) > 0)

\* variant: the spawn test compares with the right edge of the canvas
needsSpawn_early(pipes) ==
    Len(pipes) = 0 \/ pipes[Len(pipes)].x < HalfPx(CANVAS_WIDTH)

needsSpawn(pipes) ==
    Len(pipes) = 0 \/ pipes[Len(pipes)].x < HalfPx(SPAWN_THRESHOLD)

advancePipes(pipes, gapY) ==
    LET kept == movePipes(pipes)
    IN IF needsSpawn(kept) THEN createPipe(kept, gapY) ELSE kept

\* ------------------------------------------------------------ ghost manager
spawnGhost(gh, runPositions) ==
    Append(gh, [runPositions |-> runPositions, index |-> 0,
                y |-> IF Len(runPositions) > 0 THEN runPositions[1] ELSE -1])

RemoveAt(s, i) == SubSeq(s, 1, i - 1) \o SubSeq(s, i + 1, Len(s))

\* variant: the ghost is destroyed on the tick that should show its last sample
ghostTick_early(gh, i) ==
    IF gh[i].index + 1 >= Len(gh[i].runPositions)
    THEN RemoveAt(gh, i)
    ELSE [gh EXCEPT ![i].y = gh[i].runPositions[gh[i].index + 1],
                    ![i].index = @ + 1]

\* variant: the cursor is shared, a tick advances every ghost that has samples
\* left
ghostTick_sharedCursor(gh, i) ==
    IF gh[i].index >= Len(gh[i].runPositions)
    THEN RemoveAt(gh, i)
    ELSE [j \in 1..Len(gh) |->
            IF gh[j].index < Len(gh[j].runPositions)
            THEN [gh[j] EXCEPT !.y = gh[j].runPositions[gh[j].index + 1],
                               !.index = @ + 1]
            ELSE gh[j]]

ghostTick(gh, i) ==
    IF gh[i].index >= Len(gh[i].runPositions)
    THEN RemoveAt(gh, i)
    ELSE [gh EXCEPT ![i].y = gh[i].runPositions[gh[i].index + 1],
                    ![i].index = @ + 1]

\* ------------------------------------------------------------ scan reducer
\* variant: a flap adds its payload to the prior velocity
newVy_additive(st, event) ==
    IF event.type = "flap" THEN st.vy + event.vy
    ELSE IF event.type = "gravity" THEN st.vy + event.vy
    ELSE st.vy

newVy(st, event) ==
    IF event.type = "flap" THEN event.vy
    ELSE IF event.type = "gravity" THEN st.vy + event.vy
    ELSE st.vy

\* variant: the floor test ignores the bird's height
hitsBoundary_lowFloor(birdY) == birdY < 0 \/ birdY > CANVAS_HEIGHT

hitsBoundary(birdY) == birdY < 0 \/ birdY + BIRB_HEIGHT > CANVAS_HEIGHT

\* variant: the hand-off does not look at the remaining lives
handsOffRun_anyLives(run, lives) == Len(run) > 0

handsOffRun(run, lives) == Len(run) > 0 /\ lives > 1

\* variant: the boundary block does not call resetPipes
boundaryCheck_noReset(st, birdY, pipes, run, gh, gapY) ==
    IF hitsBoundary(birdY)
    THEN LET lives == st.lives - 1
         IN [hit |-> TRUE,
             ghosts |-> IF handsOffRun(run, st.lives) THEN spawnGhost(gh, run) ELSE gh,
             run |-> IF handsOffRun(run, st.lives) THEN <<>> ELSE run,
             lives |-> lives,
             pipes |-> pipes,
             newBirdY |-> START_Y,
             gameEnd |-> IF lives <= 0 THEN TRUE ELSE FALSE]
    ELSE [hit |-> FALSE, ghosts |-> gh, run |-> run, lives |-> st.lives,
          pipes |-> pipes, newBirdY |-> birdY, gameEnd |-> (st.lives <= 0)]

\* variant: the boundary block leaves gameEnd as computed from the prior lives
boundaryCheck_staleEnd(st, birdY, pipes, run, gh, gapY) ==
    IF hitsBoundary(birdY)
    THEN [hit |-> TRUE,
          ghosts |-> IF handsOffRun(run, st.lives) THEN spawnGhost(gh, run) ELSE gh,
          run |-> IF handsOffRun(run, st.lives) THEN <<>> ELSE run,
          lives |-> st.lives - 1,
          pipes |-> resetPipes(pipes, gapY),
          newBirdY |-> START_Y,
          gameEnd |-> (st.lives <= 0)]
    ELSE [hit |-> FALSE, ghosts |-> gh, run |-> run, lives |-> st.lives,
          pipes |-> pipes, newBirdY |-> birdY, gameEnd |-> (st.lives <= 0)]

\* the boundary block: ghost hand-off, life loss, pipe reset, bird reset
boundaryCheck(st, birdY, pipes, run, gh, gapY) ==
    IF hitsBoundary(birdY)
    THEN LET lives == st.lives - 1
         IN [hit |-> TRUE,
             ghosts |-> IF handsOffRun(run, st.lives) THEN spawnGhost(gh, run) ELSE gh,
             run |-> IF handsOffRun(run, st.lives) THEN <<>> ELSE run,
             lives |-> lives,
             pipes |-> resetPipes(pipes, gapY),
             newBirdY |-> START_Y,
             gameEnd |-> IF lives <= 0 THEN TRUE ELSE FALSE]
    ELSE [hit |-> FALSE, ghosts |-> gh, run |-> run, lives |-> st.lives,
          pipes |-> pipes, newBirdY |-> birdY, gameEnd |-> (st.lives <= 0)]

\* variant: a scored pipe is not marked passed
RECURSIVE scanPipes_noMark(_, _, _, _)
scanPipes_noMark(pipes, i, newBirdY, score) ==
    IF i > Len(pipes) THEN [hit |-> FALSE, score |-> score, pipes |-> pipes]
    ELSE IF isColliding(newBirdY, pipes[i]) # "null"
         THEN [hit |-> TRUE, score |-> score, pipes |-> pipes]
    ELSE IF ~pipes[i].passed /\ HalfPx(birdLeft) > pipes[i].x + HalfPx(PIPE_WIDTH)
         THEN scanPipes_noMark(pipes, i + 1, newBirdY, score + 1)
    ELSE scanPipes_noMark(pipes, i + 1, newBirdY, score)

\* variant: a pipe is scored as soon as its left edge is behind the bird's
RECURSIVE scanPipes_marksEarly(_, _, _, _)
scanPipes_marksEarly(pipes, i, newBirdY, score) ==
    IF i > Len(pipes) THEN [hit |-> FALSE, score |-> score, pipes |-> pipes]
    ELSE IF isColliding(newBirdY, pipes[i]) # "null"
         THEN [hit |-> TRUE, score |-> score, pipes |-> pipes]
    ELSE IF ~pipes[i].passed /\ HalfPx(birdLeft) > pipes[i].x
         THEN scanPipes_marksEarly([pipes EXCEPT ![i].passed = TRUE], i + 1, newBirdY,
                                   score + 1)
    ELSE scanPipes_marksEarly(pipes, i + 1, newBirdY, score)

\* variant: a pipe is scored only when it is 180 px behind the bird
RECURSIVE scanPipes_scoresLate(_, _, _, _)
scanPipes_scoresLate(pipes, i, newBirdY, score) ==
    IF i > Len(pipes) THEN [hit |-> FALSE, score |-> score, pipes |-> pipes]
    ELSE IF isColliding(newBirdY, pipes[i]) # "null"
         THEN [hit |-> TRUE, score |-> score, pipes |-> pipes]
    ELSE IF ~pipes[i].passed
            /\ HalfPx(birdLeft) > pipes[i].x + HalfPx(PIPE_WIDTH) + HalfPx(180)
         THEN scanPipes_scoresLate([pipes EXCEPT ![i].passed = TRUE], i + 1, newBirdY,
                                   score + 1)
    ELSE scanPipes_scoresLate(pipes, i + 1, newBirdY, score)

\* variant: only the first pipe is tested for a collision
RECURSIVE scanPipes_firstOnly(_, _, _, _)
scanPipes_firstOnly(pipes, i, newBirdY, score) ==
    IF i > Len(pipes) THEN [hit |-> FALSE, score |-> score, pipes |-> pipes]
    ELSE IF i = 1 /\ isColliding(newBirdY, pipes[i]) # "null"
         THEN [hit |-> TRUE, score |-> score, pipes |-> pipes]
    ELSE IF ~pipes[i].passed /\ HalfPx(birdLeft) > pipes[i].x + HalfPx(PIPE_WIDTH)
         THEN scanPipes_firstOnly([pipes EXCEPT ![i].passed = TRUE], i + 1, newBirdY,
                                  score + 1)
    ELSE scanPipes_firstOnly(pipes, i + 1, newBirdY, score)

\* the for loop over activePipes: stops at the first colliding pipe, scores
\* and marks the pipes visited before it
RECURSIVE scanPipes(_, _, _, _)
scanPipes(pipes, i, newBirdY, score) ==
    IF i > Len(pipes) THEN [hit |-> FALSE, score |-> score, pipes |-> pipes]
    ELSE IF isColliding(newBirdY, pipes[i]) # "null"
         THEN [hit |-> TRUE, score |-> score, pipes |-> pipes]
    ELSE IF ~pipes[i].passed /\ HalfPx(birdLeft) > pipes[i].x + HalfPx(PIPE_WIDTH)
         THEN scanPipes([pipes EXCEPT ![i].passed = TRUE], i + 1, newBirdY, score + 1)
    ELSE scanPipes(pipes, i + 1, newBirdY, score)

\* variant: restart resets the bird only, as the collision return does
restartBranch_keepsState(st, pipes, gh, g1) ==
    [state |-> [st EXCEPT !.birdY = START_Y, !.vy = 0], pipes |-> resetPipes(pipes, g1),
     run |-> <<>>, ghosts |-> gh, path |-> "restart"]

\* variant: restart removes the playing ghosts
restartBranch_clearsGhosts(st, pipes, gh, g1) ==
    [state |-> initialBirdState, pipes |-> resetPipes(pipes, g1),
     run |-> <<>>, ghosts |-> <<>>, path |-> "restart"]

\* variant: restart spawns a ghost at the start position
restartBranch_handsOff(st, pipes, gh, g1) ==
    [state |-> initialBirdState, pipes |-> resetPipes(pipes, g1),
     run |-> <<>>, ghosts |-> spawnGhost(gh, <<START_Y>>), path |-> "restart"]

\* the restart branch: trail cleared, pipes reset, the prior state discarded
restartBranch(st, pipes, gh, g1) ==
    [state |-> initialBirdState, pipes |-> resetPipes(pipes, g1),
     run |-> <<>>, ghosts |-> gh, path |-> "restart"]

\* variant: the early return is missing
isFrozen_never(st) == FALSE

\* if (state.gameEnd) return state
isFrozen(st) == st.gameEnd

\* variant: the collision return keeps the prior velocity
collisionReturn_keepsVy(st, b, s, g2) ==
    LET lives == b.lives - 1
    IN [state |-> [st EXCEPT !.birdY = START_Y, !.lives = lives,
                             !.gameEnd = IF lives <= 0 THEN TRUE ELSE b.gameEnd,
                             !.score = s.score],
        pipes |-> resetPipes(s.pipes, g2),
        run |-> IF handsOffRun(b.run, b.lives) THEN <<>> ELSE b.run,
        ghosts |-> IF handsOffRun(b.run, b.lives)
                   THEN spawnGhost(b.ghosts, b.run) ELSE b.ghosts,
        path |-> IF b.hit THEN "boundary+pipe" ELSE "pipe"]

\* variant: the collision return forgets the score
collisionReturn_dropsScore(st, b, s, g2) ==
    LET lives == b.lives - 1
    IN [state |-> [st EXCEPT !.birdY = START_Y, !.vy = 0, !.lives = lives,
                             !.gameEnd = IF lives <= 0 THEN TRUE ELSE b.gameEnd,
                             !.score = 0],
        pipes |-> resetPipes(s.pipes, g2),
        run |-> IF handsOffRun(b.run, b.lives) THEN <<>> ELSE b.run,
        ghosts |-> IF handsOffRun(b.run, b.lives)
                   THEN spawnGhost(b.ghosts, b.run) ELSE b.ghosts,
        path |-> IF b.hit THEN "boundary+pipe" ELSE "pipe"]

\* the body of `if (collision)`: b is the result of the boundary block, s the
\* result of the loop up to the colliding pipe
collisionReturn(st, b, s, g2) ==
    LET lives == b.lives - 1
    IN [state |-> [st EXCEPT !.birdY = START_Y, !.vy = 0, !.lives = lives,
                             !.gameEnd = IF lives <= 0 THEN TRUE ELSE b.gameEnd,
                             !.score = s.score],
        pipes |-> resetPipes(s.pipes, g2),
        run |-> IF handsOffRun(b.run, b.lives) THEN <<>> ELSE b.run,
        ghosts |-> IF handsOffRun(b.run, b.lives)
                   THEN spawnGhost(b.ghosts, b.run) ELSE b.ghosts,
        path |-> IF b.hit THEN "boundary+pipe" ELSE "pipe"]

\* variant: the fall-through path moves the pipes
fallThroughReturn_movesPipes(st, vy, b, s) ==
    [state |-> [st EXCEPT !.vy = vy, !.birdY = b.newBirdY, !.lives = b.lives,
                          !.gameEnd = b.gameEnd, !.score = s.score],
     pipes |-> movePipes(s.pipes),
     run |-> Append(b.run, b.newBirdY),
     ghosts |-> b.ghosts,
     path |-> IF b.hit THEN "boundary" ELSE "clear"]

\* variant: the trail gets the position before the step
fallThroughReturn_pushesPrior(st, vy, b, s) ==
    [state |-> [st EXCEPT !.vy = vy, !.birdY = b.newBirdY, !.lives = b.lives,
                          !.gameEnd = b.gameEnd, !.score = s.score],
     pipes |-> s.pipes,
     run |-> Append(b.run, st.birdY),
     ghosts |-> b.ghosts,
     path |-> IF b.hit THEN "boundary" ELSE "clear"]

\* the statements after the loop: trail push and the returned state
fallThroughReturn(st, vy, b, s) ==
    [state |-> [st EXCEPT !.vy = vy, !.birdY = b.newBirdY, !.lives = b.lives,
                          !.gameEnd = b.gameEnd, !.score = s.score],
     pipes |-> s.pipes,
     run |-> Append(b.run, b.newBirdY),
     ghosts |-> b.ghosts,
     path |-> IF b.hit THEN "boundary" ELSE "clear"]

\* the state$ scan callback; g1 and g2 are the Math.random() draws of the
\* resetPipes calls it makes
reduce(st, event, pipes, run, gh, g1, g2) ==
    IF event.type = "restart" THEN restartBranch(st, pipes, gh, g1)
    ELSE IF isFrozen(st)
    THEN [state |-> st, pipes |-> pipes, run |-> run, ghosts |-> gh, path |-> "frozen"]
    ELSE
      LET vy == newVy(st, event)
          birdY == st.birdY + vy
          b == boundaryCheck(st, birdY, pipes, run, gh, g1)
          s == scanPipes(b.pipes, 1, b.newBirdY, st.score)
      IN IF s.hit THEN collisionReturn(st, b, s, g2)
         ELSE fallThroughReturn(st, vy, b, s)

\* ------------------------------------------------------------------ actions
\* lastEvent is a record of the last handler run: its type, the path it took,
\* whether the game was ended and the trail non-empty before it, the life
\* losses since the start or the last restart, and the obstacle ticks since
\* the last gravity event (counted up to 2).
\* one run of the scan callback followed by render (the subscriber), which
\* writes the HUD text the obstacle tick reads back
Emit(event, g1, g2) ==
    LET r == reduce(state, event, activePipes, currentRun, ghosts, g1, g2)
    IN /\ budget > 0
       /\ state' = r.state
       /\ activePipes' = r.pipes
       /\ currentRun' = r.run
       /\ ghosts' = r.ghosts
       /\ livesText' = livesTextOf(r.state.lives)
       /\ lastEvent' = [type |-> event.type, path |-> r.path, wasEnded |-> state.gameEnd,
                          hadTrail |-> Len(currentRun) > 0,
                          sinceGravity |-> IF event.type = "gravity" THEN 0
                                           ELSE lastEvent.sinceGravity,
                       losses |-> IF event.type = "restart" THEN 0
                                  ELSE IF r.state.lives < state.lives
                                  THEN lastEvent.losses + 1
                                  ELSE lastEvent.losses]
       /\ budget' = budget - 1

\* the draws a handler run consumes: a resetPipes call that is not made draws
\* nothing
firstDraws(st, event) ==
    IF event.type = "restart" \/ (~isFrozen(st) /\ hitsBoundary(st.birdY + newVy(st, event)))
    THEN Gaps ELSE {minGapY}

secondDraws(st, event, pipes, run, gh, g1) ==
    IF reduce(st, event, pipes, run, gh, g1, minGapY).path \in {"pipe", "boundary+pipe"}
    THEN Gaps ELSE {minGapY}

Step(event) ==
    \E g1 \in firstDraws(state, event) :
      \E g2 \in secondDraws(state, event, activePipes, currentRun, ghosts, g1) :
        Emit(event, g1, g2)

Flap == Step(flapEvent)

Gravity == Step(gravityEvent)

Restart == Step(restartEvent)

advanceDraws(pipes) == IF needsSpawn(movePipes(pipes)) THEN Gaps ELSE {minGapY}

AdvanceTick ==
    /\ budget > 0
    /\ IF parseLives(livesText) <= 0
       THEN /\ activePipes' = activePipes
            /\ lastEvent' = [type |-> "advance", path |-> "idle", wasEnded |-> state.gameEnd,
                          hadTrail |-> Len(currentRun) > 0,
                          sinceGravity |-> IF lastEvent.sinceGravity < 2
                                           THEN lastEvent.sinceGravity + 1 ELSE 2,
                          losses |-> lastEvent.losses]
       ELSE /\ \E g \in advanceDraws(activePipes) :
                 activePipes' = advancePipes(activePipes, g)
            /\ lastEvent' = [type |-> "advance", path |-> "moved", wasEnded |-> state.gameEnd,
                          hadTrail |-> Len(currentRun) > 0,
                          sinceGravity |-> IF lastEvent.sinceGravity < 2
                                           THEN lastEvent.sinceGravity + 1 ELSE 2,
                          losses |-> lastEvent.losses]
    /\ budget' = budget - 1
    /\ UNCHANGED <<state, currentRun, ghosts, livesText>>

\* variant: the playback moves the player's bird to the displayed sample
GhostTick_movesBird ==
    /\ budget > 0
    /\ \E i \in 1..Len(ghosts) :
         /\ ghosts' = ghostTick(ghosts, i)
         /\ state' = [state EXCEPT !.birdY = ghosts[i].y]
    /\ lastEvent' = [type |-> "ghost", path |-> "tick", wasEnded |-> state.gameEnd,
                          hadTrail |-> Len(currentRun) > 0,
                          sinceGravity |-> lastEvent.sinceGravity,
                          losses |-> lastEvent.losses]
    /\ budget' = budget - 1
    /\ UNCHANGED <<activePipes, currentRun, livesText>>

GhostTick ==
    /\ budget > 0
    /\ \E i \in 1..Len(ghosts) : ghosts' = ghostTick(ghosts, i)
    /\ lastEvent' = [type |-> "ghost", path |-> "tick", wasEnded |-> state.gameEnd,
                          hadTrail |-> Len(currentRun) > 0,
                          sinceGravity |-> lastEvent.sinceGravity,
                          losses |-> lastEvent.losses]
    /\ budget' = budget - 1
    /\ UNCHANGED <<state, activePipes, currentRun, livesText>>

\* --------------------------------------------------------------- start states
\* k advance ticks applied to the pipes (the first half is evaluated before
\* the second is started, which keeps the evaluation shallow)
RECURSIVE advanceN(_, _)
advanceN(pipes, k) ==
    IF k = 0 THEN pipes
    ELSE IF k = 1 THEN advancePipes(pipes, minGapY)
    ELSE CHOOSE r \in {advanceN(q, k - (k \div 2)) : q \in {advanceN(pipes, k \div 2)}} : TRUE

\* the gaps drawn at the spawns of these pipes (a draw affects no position)
withGaps(pipes, gaps) ==
    [i \in 1..Len(pipes) |->
        [pipes[i] EXCEPT !.gapY = IF i \in DOMAIN gaps THEN gaps[i] ELSE @]]

\* n events of one kind folded from f = [state, run] with the fresh pipe still
\* at the right edge (no collision, no scoring: 222 > 600 and 180 > 650 are
\* false); evaluated by halves like advanceN
RECURSIVE foldEvents(_, _, _)
foldEvents(f, event, n) ==
    IF n = 0 THEN f
    ELSE IF n = 1
    THEN LET r == reduce(f.state, event, createPipe(<<>>, minGapY), f.run, <<>>,
                         minGapY, minGapY)
         IN [state |-> r.state, run |-> r.run]
    ELSE CHOOSE r \in {foldEvents(q, event, n - (n \div 2)) :
                         q \in {foldEvents(f, event, n \div 2)}} : TRUE

\* Start states: a life begins (lives 3 is the program's start; lives 2 and 1
\* follow one or two pipe collisions taken with an empty trail, which leave
\* birdY 200, vy 0, score 0, no ghost and one fresh pipe), then the bird runs
\* n events of one kind while the pipe is at the right edge, then only the
\* obstacle interval fires k times.
StartLives == {1, 2, 3}
StartRuns == {[event |-> gravityEvent, n |-> 0],
              [event |-> gravityEvent, n |-> 12],
              [event |-> flapEvent, n |-> 16]}
StartTicks == {0, 72, 151, 188, 225, 259}

Init ==
    \E l \in StartLives, b \in StartRuns, k \in StartTicks,
       gaps \in [1..MaxStartPipes -> Gaps] :
      LET f == foldEvents([state |-> [initialBirdState EXCEPT !.lives = l], run |-> <<>>],
                            b.event, b.n)
      IN /\ state = f.state
         /\ currentRun = f.run
         /\ activePipes = withGaps(advanceN(createPipe(<<>>, minGapY), k), gaps)
         /\ ghosts = <<>>
         /\ livesText = livesTextOf(l)
         /\ lastEvent = [type |-> "init", path |-> "init", wasEnded |-> FALSE,
                         hadTrail |-> FALSE,
                      sinceGravity |-> IF k = 0 THEN 0 ELSE 2,
                      losses |-> 3 - l]
         /\ budget = MaxEvents

Next == Flap \/ Gravity \/ Restart \/ AdvanceTick \/ GhostTick

Spec == Init /\ [][Next]_vars


\* The program's initial state, driven by the three interval timers only (no
\* key is pressed): gravity events, obstacle ticks and ghost ticks.
InitRun ==
    \E g \in Gaps :
      /\ state = initialBirdState
      /\ currentRun = <<>>
      /\ activePipes = createPipe(<<>>, g)
      /\ ghosts = <<>>
      /\ livesText = livesTextOf(initialBirdState.lives)
      /\ lastEvent = [type |-> "init", path |-> "init", wasEnded |-> FALSE,
                         hadTrail |-> FALSE,
                      sinceGravity |-> 0,
                      losses |-> 0]
      /\ budget = MaxRunEvents

NextRun == Gravity \/ AdvanceTick \/ GhostTick

SpecRun == InitRun /\ [][NextRun]_vars

\* The obstacle interval has half the period of the gravity interval
\* (TICK_RATE_MS / 2 and TICK_RATE_MS): at most two obstacle ticks fire
\* between two gravity events.
PacedAdvanceTick == lastEvent.sinceGravity < 2 /\ AdvanceTick

\* The program's initial state with no key ever pressed, the two intervals
\* at their cadence; interval(TICK_RATE_MS) never stops firing, which is the
\* weak fairness of Gravity.
InitFair ==
    \E g \in Gaps :
      /\ state = initialBirdState
      /\ currentRun = <<>>
      /\ activePipes = createPipe(<<>>, g)
      /\ ghosts = <<>>
      /\ livesText = livesTextOf(initialBirdState.lives)
      /\ lastEvent = [type |-> "init", path |-> "init", wasEnded |-> FALSE,
                      hadTrail |-> FALSE, losses |-> 0, sinceGravity |-> 0]
      /\ budget = MaxFairEvents

NextFair == Gravity \/ PacedAdvanceTick

SpecFair == InitFair /\ [][NextFair]_vars /\ WF_vars(Gravity)

\* A piloted flight at the timers' cadence.  The player presses Space
\* whenever the bird is at the start height and not rising, before the next
\* interval callback runs: from (200, 0) or (200, 12) the flap and the 12
\* gravity events that follow take the bird through 188, 178, ..., 158, 158,
\* ..., 188 and back to 200 with vy 12.  The intervals fire two obstacle ticks,
\* then one gravity event.
flapDue == ~state.gameEnd /\ state.birdY = START_Y /\ state.vy >= 0

HoverFlap == flapDue /\ Flap

CadenceGravity == ~flapDue /\ lastEvent.sinceGravity = 2 /\ Gravity

CadenceAdvanceTick == ~flapDue /\ PacedAdvanceTick

InitFlight ==
    \E g \in Gaps :
      /\ state = initialBirdState
      /\ currentRun = <<>>
      /\ activePipes = createPipe(<<>>, g)
      /\ ghosts = <<>>
      /\ livesText = livesTextOf(initialBirdState.lives)
      /\ lastEvent = [type |-> "init", path |-> "init", wasEnded |-> FALSE,
                      hadTrail |-> FALSE, losses |-> 0, sinceGravity |-> 0]
      /\ budget = MaxFlightEvents

NextFlight == HoverFlap \/ CadenceGravity \/ CadenceAdvanceTick

SpecFlight == InitFlight /\ [][NextFlight]_vars

\* Start states with a playing ghost: the first life ran m gravity events and
\* ended at an obstacle (birdY 200, vy 0, lives 2, one fresh pipe, the trail of
\* m samples handed to a ghost), then the second life ran n gravity events
\* while the pipe was at the right edge, then the obstacle interval fired k
\* times.
StartTrails == {1, 2}
GhostStartRuns == {0, 1}
GhostStartTicks == {0, 151, 152}

InitGhost ==
    \E m \in StartTrails, n \in GhostStartRuns, k \in GhostStartTicks,
       gaps \in [1..MaxStartPipes -> Gaps] :
      LET first == foldEvents([state |-> initialBirdState, run |-> <<>>], gravityEvent, m)
          f == foldEvents([state |-> [initialBirdState EXCEPT !.lives = 2], run |-> <<>>],
                          gravityEvent, n)
      IN /\ state = f.state
         /\ currentRun = f.run
         /\ activePipes = withGaps(advanceN(createPipe(<<>>, minGapY), k), gaps)
         /\ ghosts = spawnGhost(<<>>, first.run)
         /\ livesText = livesTextOf(2)
         /\ lastEvent = [type |-> "init", path |-> "init", wasEnded |-> FALSE,
                         hadTrail |-> FALSE,
                         sinceGravity |-> IF k = 0 THEN 0 ELSE 2,
                         losses |-> 1]
         /\ budget = MaxGhostEvents

SpecGhost == InitGhost /\ [][Next]_vars

\* Start states with a positive score: a life begins with one fresh pipe, only
\* the obstacle interval fires until the first pipe is past the bird and no
\* pipe overlaps it (ticks 189 to 224), then the bird makes one flap and 12
\* gravity events (188, 178, ..., 158, 158, ..., 188, 200: back at 200 with
\* vy 12), the first of which scores and marks the first pipe, then only the
\* obstacle interval fires up to tick k.
ScoredStartTicks == {225, 230, 259}

hoverCycle(f) == foldEvents(foldEvents(f, flapEvent, 1), gravityEvent, 12)

InitScored ==
    \E l \in StartLives, k \in ScoredStartTicks, gaps \in [1..MaxStartPipes -> Gaps] :
      LET f == hoverCycle([state |-> [initialBirdState EXCEPT !.lives = l], run |-> <<>>])
          pipes == withGaps(advanceN(createPipe(<<>>, minGapY), k), gaps)
      IN /\ state = [f.state EXCEPT !.score = 1]
         /\ currentRun = f.run
         /\ activePipes = [pipes EXCEPT ![1].passed = TRUE]
         /\ ghosts = <<>>
         /\ livesText = livesTextOf(l)
         /\ lastEvent = [type |-> "init", path |-> "init", wasEnded |-> FALSE,
                         hadTrail |-> FALSE, losses |-> 3 - l,
                         sinceGravity |-> 2]
         /\ budget = MaxScoredEvents

SpecScored == InitScored /\ [][Next]_vars

\* isColliding applied to drawn arguments: bird positions around the gap edges
\* of the drawn gaps, pipe positions around the two ends of the bird's span.
BirdYs == {0, 19, 20, 90, 91, 149, 150, 220, 221, 278, 279, 349, 350, 370}
PipeXs == {HalfPx(CANVAS_WIDTH), 445, 440, 265, 260, 255, 0 - 95}

InitCollide ==
    \E y \in BirdYs, x \in PipeXs, g \in Gaps :
      /\ state = [initialBirdState EXCEPT !.birdY = y]
      /\ currentRun = <<>>
      /\ activePipes = <<[x |-> x, gapY |-> g, pipeGapHeight |-> GAP_HEIGHT,
                          passed |-> FALSE]>>
      /\ ghosts = <<>>
      /\ livesText = livesTextOf(initialBirdState.lives)
      /\ lastEvent = [type |-> "init", path |-> "init", wasEnded |-> FALSE,
                      hadTrail |-> FALSE, losses |-> 0,
                      sinceGravity |-> 0]
      /\ budget = 1

\* one call of isColliding; the result is kept in lastEvent.path
Collide ==
    /\ budget > 0
    /\ lastEvent' = [type |-> "collide",
                     path |-> isColliding(state.birdY, activePipes[1]),
                     wasEnded |-> state.gameEnd, hadTrail |-> FALSE, losses |-> 0,
                     sinceGravity |-> 0]
    /\ budget' = budget - 1
    /\ UNCHANGED <<state, activePipes, currentRun, ghosts, livesText>>

NextCollide == Collide

SpecCollide == InitCollide /\ [][NextCollide]_vars

\* ------------------------------------------------------------------- claims
\* simulation steps other than restart
StepTypes == {"flap", "gravity"}

\* the tentative position of a flap or gravity step, from the spec's rule 3
tentativeY(st, type) ==
    st.birdY + (IF type = "flap" THEN -12 ELSE st.vy + 2)

\* the spec's rule 4: above the top edge or below the viewport height
outOfBounds(y) == y < 0 \/ y + 30 > 400

\* the bird's horizontal position (180) is strictly past the right edge of an
\* obstacle that is not yet marked passed
pastUnpassed(p) == ~p.passed /\ 2 * 180 > p.x + 2 * 50

\* C1: a flap or gravity step changes lives by 0 or by exactly -1.
C1_OneLifePerStep ==
    [][lastEvent'.type \in StepTypes
         => state'.lives \in {state.lives, state.lives - 1}]_vars

\* a boundary hit was applied and the obstacle scan ran over the reset set
C1_Witness ==
    /\ lastEvent.path = "boundary"
    /\ Len(activePipes) = 1
    /\ state.lives \in {0, 1, 2}

\* C2: ended is true iff lives <= 0; lives is within 0..3 and score >= 0.
C2_EndedIffNoLives ==
    /\ state.gameEnd <=> (state.lives <= 0)
    /\ state.lives >= 0
    /\ state.lives <= 3
    /\ state.score >= 0

\* the game-ending loss was applied
C2_Witness ==
    /\ lastEvent.path \in {"boundary", "pipe"}
    /\ state.gameEnd
    /\ state.lives = 0

\* C3: a restart event emits exactly the initial state.
C3_RestartYieldsInitial ==
    lastEvent.type = "restart"
      => state = [gameEnd |-> FALSE, birdY |-> 200, vy |-> 0, lives |-> 3, score |-> 0]

\* a restart was processed in the ended state
C3_Witness ==
    /\ lastEvent.type = "restart"
    /\ lastEvent.wasEnded
    /\ state.lives = 3

\* C4: once ended, a flap or gravity event changes neither the game state, the
\* obstacles, the trail nor the ghosts, and only a restart leaves the ended
\* state.
C4_FrozenWhenEnded ==
    [][/\ (state.gameEnd /\ lastEvent'.type \in StepTypes)
            => /\ state' = state
               /\ activePipes' = activePipes
               /\ currentRun' = currentRun
               /\ ghosts' = ghosts
       /\ (state.gameEnd /\ ~state'.gameEnd) => lastEvent'.type = "restart"]_vars

\* a flap or gravity event was processed in the ended state
C4_Witness ==
    /\ lastEvent.path = "frozen"
    /\ lastEvent.type \in StepTypes
    /\ state.gameEnd

\* C5: a flap or gravity step of a non-ended state whose tentative birdY is
\* out of bounds emits lives - 1, birdY 200, verticalVelocity 0 and
\* ended = (lives <= 0).
C5_BoundaryResetsBird ==
    [][(/\ ~state.gameEnd
        /\ lastEvent'.type \in StepTypes
        /\ outOfBounds(tentativeY(state, lastEvent'.type)))
         => /\ state'.lives = state.lives - 1
            /\ state'.birdY = 200
            /\ state'.vy = 0
            /\ state'.gameEnd = (state'.lives <= 0)]_vars

\* C6: with no boundary hit and some obstacle colliding with the tentative
\* birdY, the step loses exactly one life and emits birdY 200,
\* verticalVelocity 0 and ended = (lives <= 0).
C6_FirstCollidingPipe ==
    [][(/\ ~state.gameEnd
        /\ lastEvent'.type \in StepTypes
        /\ ~outOfBounds(tentativeY(state, lastEvent'.type))
        /\ \E i \in 1..Len(activePipes) :
              isColliding(tentativeY(state, lastEvent'.type), activePipes[i]) # "null")
         => /\ state'.lives = state.lives - 1
            /\ state'.birdY = 200
            /\ state'.vy = 0
            /\ state'.gameEnd = (state'.lives <= 0)]_vars

\* an obstacle collision was applied
C6_Witness ==
    /\ lastEvent.path = "pipe"
    /\ state.birdY = 200
    /\ state.vy = 0

\* C7: after a life loss and after a restart the obstacle set is exactly one
\* obstacle at positionX 600 with passed unset.
C7_ResetLeavesOnePipe ==
    [][(state'.lives < state.lives \/ lastEvent'.type = "restart")
         => /\ Len(activePipes') = 1
            /\ activePipes'[1].x = 2 * 600
            /\ ~activePipes'[1].passed]_vars

\* a reset was applied by a life loss or a restart
C7_Witness ==
    /\ lastEvent.path \in {"boundary", "pipe", "restart"}
    /\ Len(activePipes) = 1
    /\ activePipes[1].x = 2 * 600

\* C8 as stated: a flap or gravity step of a non-ended state that finds an
\* obstacle past the bird and not yet passed increments score by exactly 1.
C8_ScoredAtFirstStepPast ==
    [][(/\ ~state.gameEnd
        /\ lastEvent'.type \in StepTypes
        /\ \E i \in 1..Len(activePipes) : pastUnpassed(activePipes[i]))
         => state'.score = state.score + 1]_vars

\* C8 amended: a flap or gravity step that loses no life increments score by
\* exactly 1 for each obstacle past the bird and not yet passed, marks exactly
\* those obstacles passed, and counts no obstacle already marked.
C8_ScoredOncePerPipe ==
    [][(/\ ~state.gameEnd
        /\ lastEvent'.type \in StepTypes
        /\ state'.lives = state.lives)
         => /\ state'.score = state.score
                 + Cardinality({i \in 1..Len(activePipes) : pastUnpassed(activePipes[i])})
            /\ Len(activePipes') = Len(activePipes)
            /\ \A i \in 1..Len(activePipes) :
                  activePipes'[i].passed
                    = (activePipes[i].passed \/ pastUnpassed(activePipes[i]))]_vars

\* an obstacle was scored and marked by a step that lost no life
C8_Witness ==
    /\ lastEvent.path = "clear"
    /\ state.score = 1
    /\ \E i \in 1..Len(activePipes) : activePipes[i].passed

\* C9: a flap or gravity step that loses a life leaves score unchanged.
C9_NoScoreOnLifeLoss ==
    [][(lastEvent'.type \in StepTypes /\ state'.lives < state.lives)
         => state'.score = state.score]_vars

\* C10: the run trail is empty after every step that loses a life.
C10_TrailEmptyAfterLoss ==
    [][(lastEvent'.type \in StepTypes /\ state'.lives < state.lives)
         => currentRun' = <<>>]_vars

\* C11: a life-losing step spawns a ghost (a copy of the trail, cursor at the
\* start) exactly when a life remains after the loss and the trail is
\* non-empty at the moment of the loss; otherwise it spawns none.
C11_GhostIffLivesAndTrail ==
    [][(lastEvent'.type \in StepTypes /\ state'.lives < state.lives)
         => IF state'.lives >= 1 /\ Len(currentRun) > 0
            THEN /\ Len(ghosts') = Len(ghosts) + 1
                 /\ SubSeq(ghosts', 1, Len(ghosts)) = ghosts
                 /\ ghosts'[Len(ghosts')].runPositions = currentRun
                 /\ ghosts'[Len(ghosts')].index = 0
            ELSE ghosts' = ghosts]_vars

\* a ghost was spawned by a loss that left a life
C11_Witness ==
    /\ lastEvent.path \in {"boundary", "pipe"}
    /\ state.lives >= 1
    /\ Len(ghosts) = 1
    /\ ghosts[1].index = 0

\* the ghost list after the ghost at position i is taken out
ghostsWithout(gh, gh2, i) ==
    /\ Len(gh2) = Len(gh) - 1
    /\ \A j \in 1..(i - 1) : gh2[j] = gh[j]
    /\ \A j \in (i + 1)..Len(gh) : gh2[j - 1] = gh[j]

\* C12: a ghost with a trail of n samples shows sample k on its k-th tick for
\* k = 1..n and is destroyed on tick n + 1; its cursor counts its own ticks
\* and never exceeds n.
C12_PlaybackThenDestroy ==
    /\ [](\A i \in 1..Len(ghosts) :
            /\ ghosts[i].index >= 0
            /\ ghosts[i].index <= Len(ghosts[i].runPositions)
            /\ ghosts[i].index >= 1 => ghosts[i].y = ghosts[i].runPositions[ghosts[i].index])
    /\ [][lastEvent'.type = "ghost"
            => \E i \in 1..Len(ghosts) :
                 IF ghosts[i].index < Len(ghosts[i].runPositions)
                 THEN ghosts' = [ghosts EXCEPT ![i] =
                                   [runPositions |-> ghosts[i].runPositions,
                                    index |-> ghosts[i].index + 1,
                                    y |-> ghosts[i].runPositions[ghosts[i].index + 1]]]
                 ELSE ghostsWithout(ghosts, ghosts', i)]_vars

\* the only ghost was destroyed by its own tick
C12_Witness ==
    /\ lastEvent.type = "ghost"
    /\ ghosts = <<>>

\* C13: a ghost's trail and cursor are changed by nothing but its own tick:
\* a reducer step (spawn, trail push, trail clear) and an obstacle tick keep
\* every existing ghost as it is, and a ghost tick changes one ghost only and
\* never its trail.
C13_IndependentGhosts ==
    [][/\ lastEvent'.type # "ghost"
            => /\ Len(ghosts') >= Len(ghosts)
               /\ \A j \in 1..Len(ghosts) : ghosts'[j] = ghosts[j]
       /\ lastEvent'.type = "ghost"
            => \E i \in 1..Len(ghosts) :
                 \/ ghostsWithout(ghosts, ghosts', i)
                 \/ /\ Len(ghosts') = Len(ghosts)
                    /\ \A j \in 1..Len(ghosts) : j # i => ghosts'[j] = ghosts[j]
                    /\ ghosts'[i].runPositions = ghosts[i].runPositions]_vars

\* one of two ghosts was ticked, the other is still at its start
C13_Witness ==
    /\ lastEvent.type = "ghost"
    /\ Len(ghosts) = 2
    /\ \E i, j \in 1..2 : ghosts[i].index = 1 /\ ghosts[j].index = 0

\* C14: ghost playback does not influence the game.  Stated by its two
\* unwinding conditions: a ghost tick leaves the game state, the obstacles,
\* the trail and the HUD text unchanged; and what a reducer run makes of the
\* game state, the obstacles and the trail is the same with the present
\* ghosts as with none (the obstacle tick reads no ghost at all).
C14_GhostsDoNotInterfere ==
    /\ [][lastEvent'.type = "ghost"
            => /\ state' = state
               /\ activePipes' = activePipes
               /\ currentRun' = currentRun
               /\ livesText' = livesText]_vars
    /\ [](\A e \in {flapEvent, gravityEvent, restartEvent} :
            \A g1 \in Gaps : \A g2 \in Gaps :
              LET withGhosts == reduce(state, e, activePipes, currentRun, ghosts, g1, g2)
                  without == reduce(state, e, activePipes, currentRun, <<>>, g1, g2)
              IN /\ withGhosts.state = without.state
                 /\ withGhosts.pipes = without.pipes
                 /\ withGhosts.run = without.run)

\* a reducer step ran while a ghost was in the middle of its playback
C14_Witness ==
    /\ lastEvent.type \in StepTypes
    /\ Len(ghosts) >= 1
    /\ ghosts[1].index >= 1
    /\ ghosts[1].index < Len(ghosts[1].runPositions)

C16_FreeFlightStep ==
    [][(/\ ~state.gameEnd
        /\ lastEvent'.type \in StepTypes
        /\ ~outOfBounds(tentativeY(state, lastEvent'.type))
        /\ \A i \in 1..Len(activePipes) :
              isColliding(tentativeY(state, lastEvent'.type), activePipes[i]) = "null")
         => /\ state'.vy = IF lastEvent'.type = "flap" THEN -12 ELSE state.vy + 2
            /\ state'.birdY = state.birdY + state'.vy
            /\ state'.lives = state.lives
            /\ state'.gameEnd = state.gameEnd]_vars

\* the spec's example: initial state, one gravity event, then a flap
C16_Witness ==
    /\ lastEvent.type = "flap"
    /\ lastEvent.path = "clear"
    /\ currentRun = <<202, 190>>
    /\ state.vy = -12
    /\ state.birdY = 190
    /\ state.lives = 3

\* C17: with gravity events only, birdY does not decrease across a step that
\* applies no collision.
C17_GravityNeverRaises ==
    [][(lastEvent'.type = "gravity" /\ state'.lives = state.lives)
         => state'.birdY >= state.birdY]_vars

\* the bird fell on in its second life
C17_Witness ==
    /\ lastEvent.type = "gravity"
    /\ lastEvent.path = "clear"
    /\ lastEvent.losses = 1
    /\ state.birdY > 200

\* C18: the obstacle set always holds 1 to 4 obstacles, consecutive obstacles
\* are exactly 182.5 apart, and an advance tick adds an obstacle only when the
\* moved set is empty or its last obstacle is left of 420.
C18_BoundedEvenlySpaced ==
    /\ [](/\ Len(activePipes) >= 1
          /\ Len(activePipes) <= 4
          /\ \A i \in 1..(Len(activePipes) - 1) :
                activePipes[i + 1].x - activePipes[i].x = 365)
    /\ [][(/\ lastEvent'.type = "advance"
           /\ activePipes'[Len(activePipes')].x = 2 * 600
           /\ activePipes' # activePipes)
            => \/ Len(activePipes') = 1
               \/ activePipes'[Len(activePipes') - 1].x < 2 * 420]_vars

\* an advance tick spawned the second obstacle behind one at 417.5
C18_Witness ==
    /\ lastEvent.path = "moved"
    /\ Len(activePipes) = 2
    /\ activePipes[1].x = 835
    /\ activePipes[2].x = 2 * 600

\* C19: positionX is strictly increasing with the list index.
C19_SpawnOrder ==
    \A i \in 1..Len(activePipes) : \A j \in 1..Len(activePipes) :
       i < j => activePipes[i].x < activePipes[j].x

\* an advance tick moved a full set of four obstacles
C19_Witness ==
    /\ lastEvent.path = "moved"
    /\ Len(activePipes) = 4

\* C20: an advance tick with lives > 0 moves every obstacle left by 2.5,
\* removes exactly those whose right edge is then <= 0, and changes nothing
\* else of the survivors.
C20_AdvanceMovesAndDrops ==
    [][(lastEvent'.type = "advance" /\ state.lives > 0)
         => LET kept == {i \in 1..Len(activePipes) :
                           activePipes[i].x - 5 + 2 * 50 > 0}
                rank(i) == Cardinality({j \in kept : j <= i})
            IN /\ Len(activePipes') \in {Cardinality(kept), Cardinality(kept) + 1}
               /\ \A i \in kept :
                     activePipes'[rank(i)] = [activePipes[i] EXCEPT !.x = @ - 5]
               /\ Len(activePipes') = Cardinality(kept) + 1
                     => activePipes'[Len(activePipes')].x = 2 * 600]_vars

\* an advance tick removed the obstacle whose right edge reached 0
C20_Witness ==
    /\ lastEvent.path = "moved"
    /\ Len(activePipes) = 3
    /\ activePipes[1].x = 265

\* C21: a step that is neither a restart, a life loss nor an advance tick
\* keeps the obstacles, their order, positionX, gapStart and gapHeight; it may
\* only turn passed from false to true.
C21_StepKeepsObstacles ==
    [][(/\ lastEvent'.type \in {"flap", "gravity", "ghost"}
        /\ state'.lives = state.lives)
         => /\ Len(activePipes') = Len(activePipes)
            /\ \A i \in 1..Len(activePipes) :
                  /\ activePipes'[i].x = activePipes[i].x
                  /\ activePipes'[i].gapY = activePipes[i].gapY
                  /\ activePipes'[i].pipeGapHeight = activePipes[i].pipeGapHeight
                  /\ activePipes[i].passed => activePipes'[i].passed]_vars

\* a flap marked the first of four obstacles and kept all of them
C21_Witness ==
    /\ lastEvent.type = "flap"
    /\ lastEvent.path = "clear"
    /\ Len(activePipes) = 4
    /\ activePipes[1].passed
    /\ ~activePipes[2].passed

\* the reference of the collision test: the open spans (180, 222) and
\* (positionX, positionX + 50) overlap, then the top edge, then the bottom
checkCollisionRef(birdY, o) ==
    IF ~(2 * 180 < o.x + 2 * 50 /\ o.x < 2 * 222) THEN "null"
    ELSE IF birdY < o.gapY THEN "top"
    ELSE IF birdY + 30 > o.gapY + o.pipeGapHeight THEN "bottom"
    ELSE "null"

\* C22: the collision test returns what the reference returns.
C22_CollisionMatchesReference ==
    lastEvent.type = "collide"
      => lastEvent.path = checkCollisionRef(state.birdY, activePipes[1])

\* the bird's bottom edge is one unit below the gap of an overlapping obstacle
C22_Witness ==
    /\ lastEvent.type = "collide"
    /\ lastEvent.path = "bottom"
    /\ state.birdY + 30 = activePipes[1].gapY + 100 + 1

\* C23: every obstacle has gapHeight 100 and gapStart in [20, 280], a spawn by
\* the advance tick puts the new obstacle at 600, and createPipe keeps the
\* existing obstacles as they are.
C23_SpawnShape ==
    /\ [](\A i \in 1..Len(activePipes) :
            /\ activePipes[i].pipeGapHeight = 100
            /\ activePipes[i].gapY >= 20
            /\ activePipes[i].gapY <= 280
            /\ activePipes[i].x <= 2 * 600)
    /\ [](\A g \in Gaps :
            LET after == createPipe(activePipes, g)
            IN /\ Len(after) = Len(activePipes) + 1
               /\ \A i \in 1..Len(activePipes) : after[i] = activePipes[i]
               /\ after[Len(after)].x = 2 * 600
               /\ after[Len(after)].gapY = g
               /\ after[Len(after)].pipeGapHeight = 100
               /\ ~after[Len(after)].passed)
    /\ [][Len(activePipes') > Len(activePipes)
            => /\ activePipes'[Len(activePipes')].x = 2 * 600
               /\ ~activePipes'[Len(activePipes')].passed]_vars

\* an advance tick spawned an obstacle with the lowest gap drawn
C23_Witness ==
    /\ lastEvent.path = "moved"
    /\ Len(activePipes) = 2
    /\ activePipes[2].x = 2 * 600
    /\ activePipes[2].gapY = 279

\* C24: score decreases on a restart only.
C24_ScoreMonotone ==
    [][/\ lastEvent'.type # "restart" => state'.score >= state.score
       /\ state'.score < state.score
            => (lastEvent'.type = "restart" /\ state'.score = 0)]_vars

\* a life was lost at the second obstacle after the first was scored
C24_Witness ==
    /\ lastEvent.path = "pipe"
    /\ lastEvent.hadTrail
    /\ state.score = 1
    /\ state.lives < 3

\* C25: a restart leaves the trail empty and the ghosts as they were.
C25_RestartSpawnsNoGhost ==
    [][lastEvent'.type = "restart"
         => /\ currentRun' = <<>>
            /\ ghosts' = ghosts]_vars

\* a restart was processed with a non-empty trail and lives left
C25_Witness ==
    /\ lastEvent.type = "restart"
    /\ lastEvent.hadTrail
    /\ ~lastEvent.wasEnded
    /\ currentRun = <<>>

\* C26: the trail grows by one sample on a non-colliding gravity tick and not
\* at all on a flap event.
C26_SampledPerGravityTick ==
    [][/\ (/\ lastEvent'.type = "gravity"
           /\ ~state.gameEnd
           /\ state'.lives = state.lives)
            => Len(currentRun') = Len(currentRun) + 1
       /\ lastEvent'.type = "flap" => Len(currentRun') <= Len(currentRun)]_vars

\* C27: a step in a non-ended state that applies no collision appends the
\* emitted birdY to the trail; in a non-ended state a non-empty trail ends
\* with the current birdY.
C27_StepAppendsEmittedY ==
    /\ [][(/\ lastEvent'.type \in StepTypes
           /\ ~state.gameEnd
           /\ state'.lives = state.lives)
            => currentRun' = Append(currentRun, state'.birdY)]_vars
    /\ []((~state.gameEnd /\ Len(currentRun) > 0)
            => currentRun[Len(currentRun)] = state.birdY)

\* a flap appended its position to a trail of gravity samples
C27_Witness ==
    /\ lastEvent.type = "flap"
    /\ lastEvent.path = "clear"
    /\ Len(currentRun) >= 13
    /\ currentRun[Len(currentRun)] = state.birdY
    /\ currentRun[Len(currentRun) - 1] > state.birdY

\* C28: the bird is inside the viewport in every state.
C28_BirdInsideViewport ==
    /\ state.birdY >= 0
    /\ state.birdY + 30 <= 400

\* a flap at the top edge was answered by the reset to 200
C28_Witness ==
    /\ lastEvent.type = "flap"
    /\ lastEvent.path = "boundary"
    /\ state.birdY = 200

\* C29: right after a reducer step no active obstacle collides with the
\* emitted birdY.
C29_NoCollisionAfterStep ==
    lastEvent.type \in {"flap", "gravity", "restart"}
      => \A i \in 1..Len(activePipes) :
           checkCollisionRef(state.birdY, activePipes[i]) = "null"

\* the bird is inside the gap of an obstacle it overlaps
C29_Witness ==
    /\ lastEvent.path = "clear"
    /\ \E i \in 1..Len(activePipes) :
         /\ 2 * 180 < activePipes[i].x + 2 * 50
         /\ activePipes[i].x < 2 * 222

\* C30: a step raises score by at most 1, and at most one obstacle is past
\* the bird and unmarked at any time.
C30_OneScorePerStep ==
    /\ [][lastEvent'.type \in StepTypes => state'.score <= state.score + 1]_vars
    /\ [](Cardinality({i \in 1..Len(activePipes) : pastUnpassed(activePipes[i])}) <= 1)

\* the second obstacle was scored after the first had left the screen
C30_Witness ==
    /\ lastEvent.path = "clear"
    /\ state.score = 1
    /\ Len(activePipes) = 3
    /\ activePipes[1].x = 255
    /\ activePipes[1].passed

\* C31: with one gravity event for every two advance ticks, an obstacle that
\* an advance tick removes off the left edge was marked passed before.
C31_RemovedWasScored ==
    [][(lastEvent'.type = "advance" /\ lastEvent'.path = "moved")
         => \A i \in 1..Len(activePipes) :
              activePipes[i].x - 5 + 2 * 50 <= 0 => activePipes[i].passed]_vars

\* the first obstacle left the screen after it was scored
C31_Witness ==
    /\ lastEvent.type = "advance"
    /\ lastEvent.path = "moved"
    /\ state.score >= 1
    /\ Len(activePipes) = 3
    /\ activePipes[1].x = 265
    /\ ~activePipes[1].passed

\* C32: an obstacle marked passed does not overlap the bird's span, so the
\* collision test returns none for it at every birdY, and the obstacle a step
\* collides with is never a marked one.
C32_PassedNeverCollides ==
    /\ [](\A i \in 1..Len(activePipes) :
            activePipes[i].passed
              => /\ activePipes[i].x + 2 * 50 < 2 * 180
                 /\ \A y \in BirdYs : isColliding(y, activePipes[i]) = "null")
    /\ [][lastEvent'.type \in StepTypes /\ ~state.gameEnd
            => \A i \in 1..Len(activePipes) :
                 isColliding(tentativeY(state, lastEvent'.type), activePipes[i]) # "null"
                   => ~activePipes[i].passed]_vars

\* an advance tick moved a marked obstacle further left
C32_Witness ==
    /\ lastEvent.type = "advance"
    /\ lastEvent.path = "moved"
    /\ \E i \in 1..Len(activePipes) : activePipes[i].passed

\* C33: while lives <= 0 an advance tick leaves the obstacle set unchanged.
C33_TicksIdleWhenEnded ==
    [][(lastEvent'.type = "advance" /\ state.lives <= 0)
         => activePipes' = activePipes]_vars

\* an advance tick fired in the ended state
C33_Witness ==
    /\ lastEvent.type = "advance"
    /\ lastEvent.path = "idle"
    /\ state.gameEnd
    /\ Len(activePipes) = 1
    /\ activePipes[1].x = 2 * 600

\* C34: with no flap and no restart, and the gravity tick firing again and
\* again, the game eventually ends.
C34_GravityOnlyRunEnds == <>state.gameEnd

\* the third boundary loss of the gravity-only run ended the game
C34_Witness ==
    /\ state.gameEnd
    /\ lastEvent.type = "gravity"
    /\ lastEvent.path = "boundary"
    /\ lastEvent.losses = 3
    /\ lastEvent.sinceGravity = 0

C36_RestartKeepsGhosts ==
    [][/\ lastEvent'.type = "restart"
            => (ghosts' = ghosts /\ Len(ghosts') = Len(ghosts))
       /\ (lastEvent.type = "restart" /\ lastEvent'.type = "ghost")
            => \E i \in 1..Len(ghosts) :
                 IF ghosts[i].index < Len(ghosts[i].runPositions)
                 THEN /\ Len(ghosts') = Len(ghosts)
                      /\ ghosts'[i].index = ghosts[i].index + 1
                      /\ ghosts'[i].runPositions = ghosts[i].runPositions
                 ELSE Len(ghosts') = Len(ghosts) - 1]_vars

\* a restart was processed while a ghost was in the middle of its playback
C36_Witness ==
    /\ lastEvent.type = "restart"
    /\ Len(ghosts) >= 1
    /\ ghosts[1].index >= 1
    /\ ghosts[1].index < Len(ghosts[1].runPositions)

====
